---------------------------- MODULE Spec2Model ----------------------------
(***************************************************************************)
(* Model of the roll-off-roof driver RollOffIno (indi-rolloffino):         *)
(* the serial frame reader and decoder, the communication error counter,   *)
(* and the roof motion logic driven by Move, Abort and the TimerHit poll.  *)
(*                                                                         *)
(* Characters are one-character strings, C strings are sequences of them.  *)
(***************************************************************************)
EXTENDS Integers, Sequences, FiniteSets, TLC

(***************************************************************************)
(* Program constants (rolloffino.cpp, lines 39-51).                        *)
(***************************************************************************)
INACTIVE_STATUS == 4
MAX_CNTRL_COM_ERR == 10
MAXINOCMD == 15
MAXINOTARGET == 15
MAXINOVAL == 127
MAXINOLINE == 63
MAXINOBUF == 255

(***************************************************************************)
(* Bounds of the model.                                                    *)
(***************************************************************************)
\* The clock stops advancing MaxTime seconds after the start.
MaxTime == 1
\* The configured motion timeout is one of 1..MaxTimeout seconds.
MaxTimeout == 1
\* The controller offers NumDevActions auxiliary actions.
NumDevActions == 1
\* Under SpecFault a round trip may go wrong only while communicationErrors
\* is below FaultRoom.
FaultRoom == 1
\* A fault hits one of the first LastSlot round trips of an operation.
LastSlot == 6
\* The frame reader is followed for at most MAXINOBUF + MaxExtraBytes bytes.
MaxExtraBytes == 2
\* The clock reads StartTime when the driver is constructed.
StartTime == 100
\* At most so many action switches are on at once.
MaxSwitchedOn == 2

(***************************************************************************)
(* Text.                                                                   *)
(***************************************************************************)
ACK == <<"A", "C", "K">>
NAK == <<"N", "A", "K">>
ON == <<"O", "N">>
OFF == <<"O", "F", "F">>
ZERO == <<"0">>

\* The wire form "(" verb ":" target ":" value ")".
Frame(verb, target, value) ==
    <<"(">> \o verb \o <<":">> \o target \o <<":">> \o value \o <<")">>


(***************************************************************************)
(* An inbound byte stream: the bytes of head, then the byte rest for ever; *)
(* rest = "" is a line that stays silent, so that the next tty_read times  *)
(* out.                                                                    *)
(***************************************************************************)
Finite(bytes) == [head |-> bytes, rest |-> ""]
Endless(bytes, b) == [head |-> bytes, rest |-> b]

ByteAt(stream, i) ==
    IF i <= Len(stream.head) THEN stream.head[i] ELSE stream.rest

(***************************************************************************)
(* readIno.  ReadStart is the state at loop entry, ReadStep one iteration  *)
(* of the while loop on the byte b ("" is a tty_read that fails).          *)
(*   buf    the characters of retBuf written so far (retBuf was zeroed),   *)
(*   pc     "reading", or "accept" / "reject" / "ioerr" once returned,     *)
(*   errs   the increments of communicationErrors made by readIno,         *)
(*   nread  the bytes consumed.                                            *)
(***************************************************************************)
cmdLen == MAXINOCMD - 5
targetLen == MAXINOTARGET + cmdLen - 5

ReadStart ==
    [pc |-> "reading", startFound |-> FALSE, endFound |-> FALSE,
     totalCount |-> 0, delimCount |-> 0, buf |-> <<>>, errs |-> 0, nread |-> 0]

\* A variant of the test below that wants the second delimiter as early as
\* the first.
ProbeMut(r) ==
    \/ r.totalCount >= MAXINOVAL
    \/ (r.totalCount >= 2 /\ ~r.startFound)
    \/ (r.totalCount >= cmdLen /\ r.delimCount = 0)
    \/ (r.totalCount >= cmdLen /\ r.delimCount < 2)
    \/ (r.endFound /\ r.delimCount # 2)

\* The test of lines 1370-1373.
Probe(r) ==
    \/ r.totalCount >= MAXINOVAL
    \/ (r.totalCount >= 2 /\ ~r.startFound)
    \/ (r.totalCount >= cmdLen /\ r.delimCount = 0)
    \/ (r.totalCount >= targetLen /\ r.delimCount < 2)
    \/ (r.endFound /\ r.delimCount # 2)

ReadStep(r, b) ==
    IF b = ""
    THEN [r EXCEPT !.pc = "ioerr", !.errs = @ + 1]
    ELSE
      LET \* before the start is found every byte lands on retBuf[0]
          stored == IF r.startFound THEN r.buf \o <<b>> ELSE <<b>>
          r1 == [r EXCEPT
                   !.buf = stored,
                   !.nread = @ + 1,
                   !.startFound = @ \/ (b = "("),
                   !.delimCount = IF b # "(" /\ b = ":" THEN @ + 1 ELSE @,
                   !.endFound = @ \/ (b # "(" /\ b # ":" /\ b = ")")]
          r2 == [r1 EXCEPT !.totalCount = IF r1.startFound THEN @ + 1 ELSE @]
      IN  IF Probe(r2)
          THEN \* const char* canned = "(NAK:NONE:OFF)"
               [r2 EXCEPT !.pc = "reject", !.errs = @ + 1,
                          !.buf = Frame(NAK, <<"N", "O", "N", "E">>, OFF)]
          ELSE IF r2.endFound
               THEN [r2 EXCEPT !.pc = "accept"]
               ELSE r2

RECURSIVE ReadFrom(_, _, _)
ReadFrom(r, stream, i) ==
    IF r.pc # "reading" THEN r
    ELSE ReadFrom(ReadStep(r, ByteAt(stream, i)), stream, i + 1)

\* readIno on a stream: the final state of the loop.
readIno(stream) == ReadFrom(ReadStart, stream, 1)


(***************************************************************************)
(* strtok on the C string s from position pos (1-based; Len(s) + 1 is the  *)
(* terminating zero): skips leading delimiters, returns the token up to    *)
(* the next delimiter and the position after it, or NULL.                  *)
(***************************************************************************)
RECURSIVE SkipDelims(_, _, _)
SkipDelims(s, pos, delims) ==
    IF pos <= Len(s) /\ s[pos] \in delims
    THEN SkipDelims(s, pos + 1, delims) ELSE pos

RECURSIVE TokenEnd(_, _, _)
TokenEnd(s, pos, delims) ==
    IF pos <= Len(s) /\ s[pos] \notin delims
    THEN TokenEnd(s, pos + 1, delims) ELSE pos

strtok(s, pos, delims) ==
    LET from == SkipDelims(s, pos, delims)
        to == TokenEnd(s, from, delims)
    IN  IF from > Len(s)
        THEN [null |-> TRUE, tok |-> <<>>, next |-> from]
        ELSE [null |-> FALSE, tok |-> SubSeq(s, from, to - 1),
              next |-> IF to <= Len(s) THEN to + 1 ELSE to]

(***************************************************************************)
(* evaluateResponse(inpBuffer, result).                                    *)
(*   fault "null":     a strtok returned NULL and strcpy read from it,     *)
(*   fault "overflow": a token does not fit its destination array;         *)
(* both are undefined behaviour, ok and result are then meaningless.       *)
(***************************************************************************)
evaluateResponse(inpBuffer) ==
    LET t1 == strtok(inpBuffer, 1, {"(", ":"})
        t2 == strtok(inpBuffer, t1.next, {":"})
        t3 == strtok(inpBuffer, t2.next, {")"})
        inoCmd == t1.tok
        inoTarget == t2.tok
        inoVal == t3.tok
    IN  IF t1.null \/ t2.null \/ t3.null
        THEN [ok |-> FALSE, result |-> FALSE, fault |-> "null"]
        ELSE IF \/ Len(inoCmd) > MAXINOCMD
                \/ Len(inoTarget) > MAXINOTARGET
                \/ Len(inoVal) > MAXINOVAL
        THEN [ok |-> FALSE, result |-> FALSE, fault |-> "overflow"]
        ELSE IF inoCmd = NAK
        THEN [ok |-> FALSE, result |-> FALSE, fault |-> "none"]
        ELSE IF inoTarget = ZERO
        THEN [ok |-> TRUE, result |-> TRUE, fault |-> "none"]
        ELSE IF inoCmd # ACK
        THEN [ok |-> FALSE, result |-> FALSE, fault |-> "none"]
        ELSE [ok |-> TRUE, result |-> (inoVal = ON), fault |-> "none"]



\* The three fields as evaluateResponse takes them out of the buffer (lines
\* 1306-1308), for a buffer that holds all three.
Tokens(inpBuffer) ==
    LET t1 == strtok(inpBuffer, 1, {"(", ":"})
        t2 == strtok(inpBuffer, t1.next, {":"})
        t3 == strtok(inpBuffer, t2.next, {")"})
    IN  [inoCmd |-> t1.tok, inoTarget |-> t2.tok, inoVal |-> t3.tok]
(***************************************************************************)
(* Identifiers on the wire (rolloffino.h).                                 *)
(***************************************************************************)
ROOF_OPENED_SWITCH == <<"O", "P", "E", "N", "E", "D">>
ROOF_CLOSED_SWITCH == <<"C", "L", "O", "S", "E", "D">>
ROOF_LOCKED_SWITCH == <<"L", "O", "C", "K", "E", "D">>
ROOF_AUX_SWITCH == <<"A", "U", "X", "S", "T", "A", "T", "E">>
ROOF_OPEN_CMD == <<"O", "P", "E", "N">>
ROOF_CLOSE_CMD == <<"C", "L", "O", "S", "E">>
ROOF_ABORT_CMD == <<"A", "B", "O", "R", "T">>
MAX_ACTIONS == 8
Digit(i) == <<"0", "1", "2", "3", "4", "5", "6", "7", "8", "9">>[i + 1]
\* action_state_used[i] = "ACT<i+1>STATE"
action_state_used(i) == <<"A", "C", "T", Digit(i + 1), "S", "T", "A", "T", "E">>
\* act_cmd_used[i] = "ACT<i+1>SET"
act_cmd_used(i) == <<"A", "C", "T", Digit(i + 1), "S", "E", "T">>
GET == <<"G", "E", "T">>
SET == <<"S", "E", "T">>
CON == <<"C", "O", "N">>

(***************************************************************************)
(* The controller and the serial line, as seen in one operation of the     *)
(* driver.  env.dev holds what the controller's switches read; env.plan    *)
(* says which round trip of the operation goes wrong, and how:             *)
(*   kind "writefail"  tty_write_string fails,                             *)
(*        "silent"     no byte arrives, the first tty_read times out,      *)
(*        "garbled"    a frame with a missing field arrives,               *)
(*        "nak"        the controller answers with a well-formed NAK,      *)
(*   at   the number of the round trip that goes wrong, 0 for all of them. *)
(* env.ub is what a strcpy from a NULL strtok result does: "crash" ends    *)
(* the process, "survive" lets it go on.  env.now is the clock, env.mount  *)
(* is INDI::Dome::isLocked(), env.parked the park status of the park data, *)
(* env.line the table of what readIno and evaluateResponse make of the     *)
(* reply to each request.                                                  *)
(***************************************************************************)
Kinds == {"writefail", "silent", "garbled", "nak"}
NoFault == [kind |-> "none", at |-> 0]

FaultKind(env, k) ==
    IF env.plan.kind # "none" /\ env.plan.at \in {0, k}
    THEN env.plan.kind ELSE "none"

\* The bytes the controller sends back for a request about target whose
\* truthful answer is the value text, when the round trip goes wrong as kind.
Reply(kind, target, text) ==
    CASE kind = "silent" -> Finite(<<>>)
      [] kind = "garbled" -> Finite(<<"(">> \o ACK \o <<")">>)
      [] kind = "nak" -> Finite(Frame(NAK, target, <<"B", "U", "S", "Y">>))
      [] OTHER -> Finite(Frame(ACK, target, text))

OnOff(b) == IF b THEN ON ELSE OFF

\* The value text of the controller's answer to (CON:0:0).
VersionText ==
    <<"V", "1", ".", "3", "-", "0">> \o
    (IF NumDevActions > 0
     THEN <<"[", "A", "C", "T", Digit(NumDevActions), "]">> ELSE <<>>)

\* What the controller reports for a switch id; the auxiliary switch and the
\* action switches stay on.
DevSwitch(dev, id) ==
    CASE id = ROOF_OPENED_SWITCH -> dev.opened
      [] id = ROOF_CLOSED_SWITCH -> dev.closed
      [] id = ROOF_LOCKED_SWITCH -> dev.locked
      [] OTHER -> TRUE

DigitValue(ch) ==
    CASE ch = "0" -> 0 [] ch = "1" -> 1 [] ch = "2" -> 2 [] ch = "3" -> 3
      [] ch = "4" -> 4 [] ch = "5" -> 5 [] ch = "6" -> 6 [] ch = "7" -> 7
      [] ch = "8" -> 8 [] ch = "9" -> 9 [] OTHER -> -1

\* strtol(s, &end, 10): blanks, a sign, then the digits there are.
strtol(s) ==
    LET RECURSIVE Digits(_, _)
        Digits(i, acc) ==
            IF i <= Len(s) /\ DigitValue(s[i]) >= 0
            THEN Digits(i + 1, 10 * acc + DigitValue(s[i])) ELSE acc
        first == SkipDelims(s, 1, {" "})
        signed == first <= Len(s) /\ s[first] \in {"+", "-"}
        magnitude == Digits(IF signed THEN first + 1 ELSE first, 0)
    IN  IF signed /\ s[first] = "-" THEN 0 - magnitude ELSE magnitude

\* The parse of the accepted response, lines 1220-1241: the action count,
\* or the fault met on the way.
ParseActions(workBuffer) ==
    LET s1 == strtok(workBuffer, 1, {"(", ":"})
        s2 == strtok(workBuffer, s1.next, {":"})
        s3 == strtok(workBuffer, s2.next, {")"})
        target == s3.tok
        v1 == strtok(target, 1, {"["})
        v2 == strtok(target, v1.next, {"T"})
        v3 == strtok(target, v2.next, {"]"})
        value == strtol(v3.tok)
    IN  IF s1.null \/ s2.null \/ s3.null
        THEN [fault |-> "null", count |-> 0]
        ELSE IF Len(s1.tok) > MAXINOVAL \/ Len(s2.tok) > MAXINOVAL
                \/ Len(target) > MAXINOTARGET
        THEN [fault |-> "overflow", count |-> 0]
        ELSE IF \A i \in 1..Len(target) : target[i] # "["
        THEN [fault |-> "none", count |-> 0]
        ELSE IF v1.null \/ v2.null \/ v3.null
        THEN [fault |-> "null", count |-> 0]
        ELSE [fault |-> "none",
              count |-> IF value > 0 /\ value <= MAX_ACTIONS THEN value ELSE 0]

\* readIno followed by evaluateResponse on the reply to one request: the
\* reader's final state, the decoder's verdict on its buffer, and what
\* initialContact reads in it.
ExchangeOf(r) ==
    [read |-> r, eval |-> evaluateResponse(r.buf),
     parse |-> ParseActions(r.buf)]

Exchange(kind, target, text) == ExchangeOf(readIno(Reply(kind, target, text)))

\* The exchanges the driver can meet, held as an explicit table.
Requests ==
    ({"none"} \cup Kinds) \X
    ({ROOF_OPENED_SWITCH, ROOF_CLOSED_SWITCH, ROOF_LOCKED_SWITCH,
      ROOF_AUX_SWITCH, ROOF_OPEN_CMD, ROOF_CLOSE_CMD, ROOF_ABORT_CMD, ZERO}
     \cup {action_state_used(i) : i \in 0..(MAX_ACTIONS - 1)}
     \cup {act_cmd_used(i) : i \in 0..(MAX_ACTIONS - 1)}) \X
    {ON, OFF, VersionText}

Exchanges ==
    LET table == [q \in Requests |-> Exchange(q[1], q[2], q[3])]
    IN  table @@ table

(***************************************************************************)
(* The driver object threaded through an operation: c.o holds the members  *)
(* of RollOffIno and of its base class INDI::Dome, the other fields what   *)
(* the operation did:                                                      *)
(*   rt     round trips started,  sent  the frames written,                *)
(*   ret    the value returned by the last call,  val  its bool* result,   *)
(*   delay  the argument of the last SetTimer, 0 if none,                  *)
(*   lights RoofStatusL as set by the last updateRoofStatus,               *)
(*   actionState  as set by the last updateActionStatus,                   *)
(*   good   the last round trip ended with a positive response,            *)
(*   peak   communicationErrors as TimerHit tested it, -1 if it did not,   *)
(*   answer what came back for the last SET frame written: "ack", or the  *)
(*          kind of fault of that round trip; "unsent" if none was written.*)
(*   failed round trips that ended on a write error, on a read that gave   *)
(*          no frame, or on a frame that could not be decoded,             *)
(*   lock   what the last pushRoofButton made of its read of the lock      *)
(*          switch: "off", "on", "failed"; "unread" if there was none.     *)
(***************************************************************************)
LightsInit == [opened |-> "IPS_IDLE", closed |-> "IPS_IDLE",
               moving |-> "IPS_IDLE", locked |-> "IPS_IDLE",
               aux |-> "IPS_IDLE", summary |-> "IPS_BUSY"]

Enter(o) == [o |-> o, rt |-> 0, sent |-> <<>>, ret |-> FALSE, val |-> FALSE,
             delay |-> 0, lights |-> LightsInit,
             actionState |-> [i \in 0..(MAX_ACTIONS - 1) |-> FALSE],
             good |-> FALSE, peak |-> -1, answer |-> "unsent",
             cause |-> "none", misses |-> {}, mount |-> FALSE, slot |-> -1,
             msg |-> <<>>, failed |-> 0, lock |-> "unread"]

\* strcpy through a NULL pointer, or beyond the destination array.
Undefined(c, env) ==
    IF env.ub = "crash" THEN [c EXCEPT !.o.crashed = TRUE] ELSE c

\* A variant of writeIno that lets a message of MAXINOLINE bytes through.
writeInoMut(c, env, msg) ==
    IF Len(msg) > MAXINOLINE
    THEN [c EXCEPT !.ret = FALSE, !.cause = "write"]
    ELSE IF FaultKind(env, c.rt + 1) = "writefail"
         THEN [c EXCEPT !.ret = FALSE, !.rt = @ + 1, !.good = FALSE,
                        !.cause = "write", !.failed = @ + 1]
         ELSE [c EXCEPT !.ret = TRUE, !.rt = @ + 1, !.sent = Append(@, msg)]

writeIno(c, env, msg) ==
    IF Len(msg) >= MAXINOLINE
    THEN [c EXCEPT !.ret = FALSE, !.cause = "write"]
    ELSE IF FaultKind(env, c.rt + 1) = "writefail"
         THEN [c EXCEPT !.ret = FALSE, !.rt = @ + 1, !.good = FALSE,
                        !.cause = "write", !.failed = @ + 1]
         ELSE [c EXCEPT !.ret = TRUE, !.rt = @ + 1, !.sent = Append(@, msg)]

\* readRoofSwitch after the request has been written: x is what readIno and
\* evaluateResponse make of the reply.
ReadAnswer(w, env, x) ==
    IF x.read.pc # "accept"
    THEN [w EXCEPT !.o.communicationErrors = @ + x.read.errs,
                   !.ret = FALSE, !.good = FALSE, !.cause = "read",
                   !.failed = @ + 1]
    ELSE IF x.eval.fault # "none"
    THEN [Undefined(w, env) EXCEPT !.ret = FALSE, !.good = FALSE,
                                   !.cause = "parse", !.failed = @ + 1]
    ELSE [w EXCEPT !.ret = x.eval.ok, !.val = x.eval.result,
                   !.good = x.eval.ok,
                   !.cause = IF x.eval.ok THEN "none" ELSE "nak"]

\* readRoofSwitch from the write on: w is the driver after writeIno.
ReadWritten(w, env, roofSwitchId) ==
    IF ~w.ret THEN w
    ELSE ReadAnswer(w, env,
                    env.line[<<FaultKind(env, w.rt), roofSwitchId,
                                OnOff(DevSwitch(env.dev, roofSwitchId))>>])

\* Every caller passes a result that it has set to false.
readRoofSwitch(c, env, roofSwitchId) ==
    IF ~c.o.contactEstablished
    THEN [c EXCEPT !.ret = FALSE, !.val = FALSE, !.cause = "contact"]
    ELSE ReadWritten(writeIno([c EXCEPT !.val = FALSE], env,
                              Frame(GET, roofSwitchId, ZERO)),
                     env, roofSwitchId)

ISS(b) == IF b THEN "ISS_ON" ELSE "ISS_OFF"

\* The tail of the four switch getters: r is the driver after
\* readRoofSwitch, member the switch state the getter keeps.  misses notes
\* which getters failed in this call of the operation, and why.
KeepSwitch(r, member) ==
    IF r.ret
    THEN [r EXCEPT !.o[member] = ISS(r.val)]
    ELSE [r EXCEPT !.o.communicationErrors = @ + 1,
                   !.misses = @ \cup {<<member, r.cause>>}]

getFullOpenedLimitSwitch(c, env) ==
    IF c.o.simulation
    THEN [c EXCEPT !.o.fullyOpenedLimitSwitch = ISS(c.o.simRoofOpen),
                   !.val = c.o.simRoofOpen, !.ret = TRUE]
    ELSE KeepSwitch(readRoofSwitch(c, env, ROOF_OPENED_SWITCH),
                    "fullyOpenedLimitSwitch")

getFullClosedLimitSwitch(c, env) ==
    IF c.o.simulation
    THEN [c EXCEPT !.o.fullyClosedLimitSwitch = ISS(c.o.simRoofClosed),
                   !.val = c.o.simRoofClosed, !.ret = TRUE]
    ELSE KeepSwitch(readRoofSwitch(c, env, ROOF_CLOSED_SWITCH),
                    "fullyClosedLimitSwitch")

getRoofLockedSwitch(c, env) ==
    IF c.o.simulation
    THEN [c EXCEPT !.o.roofLockedSwitch = "ISS_OFF", !.val = FALSE, !.ret = TRUE]
    ELSE KeepSwitch(readRoofSwitch(c, env, ROOF_LOCKED_SWITCH),
                    "roofLockedSwitch")

getRoofAuxSwitch(c, env) ==
    IF c.o.simulation
    THEN [c EXCEPT !.o.roofAuxiliarySwitch = "ISS_OFF", !.val = FALSE,
                   !.ret = TRUE]
    ELSE KeepSwitch(readRoofSwitch(c, env, ROOF_AUX_SWITCH),
                    "roofAuxiliarySwitch")

\* action is action_state_used[i]; the loop of actionSwitchUsed finds it
\* among the first actionCount entries.
actionSwitchUsed(c, i) == c.o.actionCount > 0 /\ i < c.o.actionCount

\* The tail of getActionSwitch: r is the driver after readRoofSwitch.
KeepAction(r) ==
    IF r.ret THEN r ELSE [r EXCEPT !.o.communicationErrors = @ + 1]

getActionSwitch(c, env, i) ==
    IF c.o.simulation
    THEN [c EXCEPT !.val = FALSE, !.ret = TRUE]
    ELSE IF ~actionSwitchUsed(c, i)
    THEN [c EXCEPT !.val = FALSE, !.ret = FALSE]
    ELSE KeepAction(readRoofSwitch(c, env, action_state_used(i)))
(***************************************************************************)
(* updateRoofStatus: reads the four switches and sets the status lights,   *)
(* RoofStatusL as [opened, closed, moving, locked, aux] and the summary    *)
(* RoofStatusLP; clears roofOpening / roofClosing at the limit switches.   *)
(***************************************************************************)
\* The lights with nothing but the auxiliary one decided.
IdleLights(auxiliaryState) ==
    [opened |-> "IPS_IDLE", closed |-> "IPS_IDLE", moving |-> "IPS_IDLE",
     locked |-> "IPS_IDLE",
     aux |-> IF auxiliaryState THEN "IPS_OK" ELSE "IPS_IDLE",
     summary |-> "IPS_IDLE"]

\* A variant of LockedLights that raises no alert for a locked roof in
\* motion.
LockedLightsMut(l, openedState, closedState, moving) ==
    IF closedState
    THEN [l EXCEPT !.closed = "IPS_OK", !.summary = "IPS_OK"]
    ELSE IF openedState
    THEN [l EXCEPT !.opened = "IPS_OK", !.summary = "IPS_OK"]
    ELSE l

\* The lights of a locked roof: l has the lock light set.
LockedLights(l, openedState, closedState, moving) ==
    IF closedState
    THEN [l EXCEPT !.closed = "IPS_OK", !.summary = "IPS_OK"]
    ELSE IF openedState
    THEN [l EXCEPT !.opened = "IPS_OK", !.summary = "IPS_OK"]
    ELSE IF moving
    THEN [l EXCEPT !.summary = "IPS_ALERT", !.moving = "IPS_ALERT"]
    ELSE l

\* The lights of a roof that is not locked.
FreeLights(idle, openedState, closedState, o) ==
    IF openedState \/ closedState
    THEN IF openedState /\ ~closedState
         THEN [idle EXCEPT !.opened = "IPS_OK", !.summary = "IPS_OK"]
         ELSE IF closedState /\ ~openedState
         THEN [idle EXCEPT !.closed = "IPS_OK", !.summary = "IPS_OK"]
         ELSE idle
    ELSE IF o.roofOpening \/ o.roofClosing
    THEN IF o.roofOpening
         THEN [idle EXCEPT !.opened = "IPS_BUSY", !.moving = "IPS_BUSY",
                           !.summary = "IPS_BUSY"]
         ELSE [idle EXCEPT !.closed = "IPS_BUSY", !.moving = "IPS_BUSY",
                           !.summary = "IPS_BUSY"]
    ELSE IF o.roofTimedOut = "EXPIRED_OPEN"
    THEN [idle EXCEPT !.opened = "IPS_ALERT", !.summary = "IPS_ALERT"]
    ELSE IF o.roofTimedOut = "EXPIRED_CLOSE"
    THEN [idle EXCEPT !.closed = "IPS_ALERT", !.summary = "IPS_ALERT"]
    ELSE [idle EXCEPT !.summary = "IPS_ALERT"]

\* updateRoofStatus once the four switches are read: c4 is the driver then.
StatusLights(c4, openedState, closedState, lockedState, auxiliaryState) ==
    [c4 EXCEPT
       !.lights =
           IF lockedState
           THEN LockedLights([IdleLights(auxiliaryState)
                                EXCEPT !.locked = "IPS_ALERT"],
                             openedState, closedState,
                             c4.o.roofOpening \/ c4.o.roofClosing)
           ELSE FreeLights(IdleLights(auxiliaryState), openedState,
                           closedState, c4.o),
       !.o.roofOpening =
           IF ~lockedState /\ openedState /\ ~closedState THEN FALSE ELSE @,
       !.o.roofClosing =
           IF ~lockedState /\ closedState /\ ~openedState THEN FALSE ELSE @]

\* The reads of updateRoofStatus in their order, each passing on the driver
\* and the states read so far.
StatusAux(c4, openedState, closedState, lockedState) ==
    StatusLights(c4, openedState, closedState, lockedState, c4.val)

StatusLocked(c3, env, openedState, closedState) ==
    StatusAux(getRoofAuxSwitch(c3, env), openedState, closedState, c3.val)

StatusClosed(c2, env, openedState) ==
    StatusLocked(getRoofLockedSwitch(c2, env), env, openedState, c2.val)

StatusOpened(c1, env) ==
    StatusClosed(getFullClosedLimitSwitch(c1, env), env, c1.val)

updateRoofStatus(c, env) == StatusOpened(getFullOpenedLimitSwitch(c, env), env)

\* The loop of updateActionStatus from action i on: r is the driver after
\* getActionSwitch for action i.
RECURSIVE EachAction(_, _, _)
EachAction(c, env, i) ==
    IF i >= MAX_ACTIONS THEN c
    ELSE LET r == getActionSwitch([c EXCEPT !.actionState[i] = FALSE], env, i)
         IN  EachAction([r EXCEPT !.actionState[i] = r.val], env, i + 1)

updateActionStatus(c, env) == EachAction(c, env, 0)

(***************************************************************************)
(* INDI::Dome, the base class, as far as the driver calls it.              *)
(*   DomeMotionSP  [s: the property state, on: the switch that is on]      *)
(*   IsParked                                                              *)
(* m_DomeState is not part of the state: nothing but checkConditions reads *)
(* it, and there it only spares calls of setDomeState that would change    *)
(* nothing, as a dome state of parked or unparked goes with a motion       *)
(* property that is not busy.                                              *)
(***************************************************************************)
\* A busy motion property is reset to idle.
MotionStopped(c) ==
    IF c.o.DomeMotionSP.s = "IPS_BUSY"
    THEN [c EXCEPT !.o.DomeMotionSP = [s |-> "IPS_IDLE", on |-> "none"]]
    ELSE c

setDomeState(c, value) ==
    CASE value = "DOME_IDLE" -> MotionStopped(c)
      [] value = "DOME_PARKED" -> [MotionStopped(c) EXCEPT !.o.IsParked = TRUE]
      [] value = "DOME_UNPARKED" -> [c EXCEPT !.o.IsParked = FALSE]
      [] OTHER -> c

\* SetParked: SyncParkStatus sets IsParked, then the dome state to idle and
\* to parked or unparked.
SetParked(c, isparked) ==
    setDomeState(setDomeState([c EXCEPT !.o.IsParked = isparked], "DOME_IDLE"),
                 IF isparked THEN "DOME_PARKED" ELSE "DOME_UNPARKED")

\* INDI::Dome::initProperties fills the motion property anew.
DomeInitProperties(c) ==
    [c EXCEPT !.o.DomeMotionSP = [s |-> "IPS_OK", on |-> "none"]]

SetTimer(c, ms) == [c EXCEPT !.delay = ms]

(***************************************************************************)
(* pushRoofButton and the three motion commands.                           *)
(***************************************************************************)
\* A variant of the test below that lets a command through whenever the lock
\* was read, engaged or not.
LockAllowsMut(status, switchState, ignoreLock) == status \/ ignoreLock

\* A variant of the test below that looks at switchState alone, which is
\* false after a read that failed.
LockAllowsUnread(status, switchState, ignoreLock) ==
    ~switchState \/ ignoreLock

\* The test of line 1267 on the lock read just made.
LockAllows(status, switchState, ignoreLock) ==
    (status /\ ~switchState) \/ ignoreLock

\* pushRoofButton after readIno: the status returned is readIno's, whatever
\* evaluateResponse has made of the response.
PushAnswer(w, env, kind, x) ==
    IF x.eval.fault # "none"
    THEN Undefined([w EXCEPT !.o.communicationErrors = @ + x.read.errs,
                             !.ret = (x.read.pc = "accept"),
                             !.answer = IF kind = "none" THEN "ack" ELSE kind,
                             !.good = FALSE, !.failed = @ + 1],
                   env)
    ELSE [w EXCEPT !.o.communicationErrors = @ + x.read.errs,
                   !.ret = (x.read.pc = "accept"),
                   !.answer = IF kind = "none" THEN "ack" ELSE kind,
                   !.good = (x.read.pc = "accept") /\ x.eval.ok,
                   !.failed = IF x.read.pc = "accept" THEN @ ELSE @ + 1]

\* pushRoofButton from the write on: w is the driver after writeIno.
PushWritten(w, env, button, switchOn) ==
    IF ~w.ret THEN w
    ELSE PushAnswer(w, env, FaultKind(env, w.rt),
                    env.line[<<FaultKind(env, w.rt), button,
                                OnOff(switchOn)>>])

\* pushRoofButton after the lock is read: l is the driver then, with what
\* status and switchState say of the lock at line 1267.
PushUnlocked(l, env, button, switchOn, ignoreLock) ==
    IF LockAllows(l.ret, l.val, ignoreLock)
    THEN PushWritten(writeIno(l, env, Frame(SET, button, OnOff(switchOn))),
                     env, button, switchOn)
    ELSE [l EXCEPT !.ret = FALSE]

pushRoofButton(c, env, button, switchOn, ignoreLock) ==
    IF ~c.o.contactEstablished
    THEN [c EXCEPT !.ret = FALSE]
    ELSE LET l == getRoofLockedSwitch(c, env)
         IN  PushUnlocked([l EXCEPT !.lock = IF ~l.ret THEN "failed"
                                              ELSE IF l.val THEN "on"
                                              ELSE "off"],
                          env, button, switchOn, ignoreLock)

roofOpen(c, env) ==
    IF c.o.simulation THEN [c EXCEPT !.ret = TRUE]
    ELSE pushRoofButton(c, env, ROOF_OPEN_CMD, TRUE, FALSE)

roofClose(c, env) ==
    IF c.o.simulation THEN [c EXCEPT !.ret = TRUE]
    ELSE pushRoofButton(c, env, ROOF_CLOSE_CMD, TRUE, FALSE)

roofAbort(c, env) ==
    IF c.o.simulation THEN [c EXCEPT !.ret = TRUE]
    ELSE pushRoofButton(c, env, ROOF_ABORT_CMD, TRUE, FALSE)

(***************************************************************************)
(* setAction, and the branch of ISNewSwitch that calls it when a client    *)
(* turns the switch of action i on or off.                                 *)
(***************************************************************************)
\* A variant of the test below that takes every action for a used one.
actionCmdUsedMut(c, i) == TRUE

\* Lines 1154-1167: act_cmd_used[i] is among the first actionCount names.
actionCmdUsed(c, i) == c.o.actionCount > 0 /\ i < c.o.actionCount

setAction(c, env, i, switchOn) ==
    IF c.o.simulation THEN [c EXCEPT !.ret = FALSE]
    ELSE IF actionCmdUsed(c, i)
    THEN pushRoofButton(c, env, act_cmd_used(i), switchOn, TRUE)
    ELSE [c EXCEPT !.ret = FALSE]

\* Lines 473-512: a request for the state the switch is in does nothing;
\* s is the driver after setAction, whose result is dropped.
NewActionSwitch(c, env, i, switchOn) ==
    IF c.o.actionSwitches[i] = switchOn THEN [c EXCEPT !.ret = TRUE]
    ELSE LET s == setAction([c EXCEPT !.o.actionSwitches[i] = switchOn],
                            env, i, switchOn)
         IN  IF s.o.crashed THEN s
             ELSE [updateActionStatus(s, env) EXCEPT !.ret = TRUE]
(***************************************************************************)
(* RollOffIno::Move(dir, operation); c.ret is the IPState returned.        *)
(***************************************************************************)
StartMotion(c, env) ==
    SetTimer([c EXCEPT !.o.roofTimedOut = "EXPIRED_CLEAR",
                       !.o.MotionRequest = c.o.RoofTimeout,
                       !.o.MotionStart = env.now,
                       !.ret = "IPS_BUSY"], 1000)

\* A variant of the tests below that misses a roof that is opening.
MotionUnderWayMut(o) == o.roofClosing

\* The two tests of lines 778-787.
MotionUnderWay(o) == o.roofOpening \/ o.roofClosing

\* A variant of MovePushed that arms the deadline also when the command
\* failed.
MovePushedArmed(p, env, dir) ==
    IF p.o.crashed THEN p
    ELSE IF p.ret
    THEN StartMotion([p EXCEPT !.o.roofOpening = (dir = "DOME_CW"),
                               !.o.roofClosing = (dir = "DOME_CCW")], env)
    ELSE [StartMotion(p, env) EXCEPT !.ret = "IPS_ALERT"]

\* Lines 802-812 and 831-841: p is the driver after roofOpen or roofClose.
MovePushed(p, env, dir) ==
    IF p.o.crashed THEN p
    ELSE IF p.ret
    THEN StartMotion([p EXCEPT !.o.roofOpening = (dir = "DOME_CW"),
                               !.o.roofClosing = (dir = "DOME_CCW")], env)
    ELSE [p EXCEPT !.ret = "IPS_ALERT"]

\* A variant of Move that neither looks for a motion under way nor clears
\* the flag of the other direction when it starts one.
MovePushedMut(p, env, dir) ==
    IF p.o.crashed THEN p
    ELSE IF p.ret
    THEN StartMotion([p EXCEPT !.o.roofOpening = @ \/ (dir = "DOME_CW"),
                               !.o.roofClosing = @ \/ (dir = "DOME_CCW")], env)
    ELSE [p EXCEPT !.ret = "IPS_ALERT"]

MoveUpdatedMut(u, env, dir, operation) ==
    IF operation # "MOTION_START" THEN [u EXCEPT !.ret = "IPS_ALERT"]
    ELSE IF u.o.roofLockedSwitch = "ISS_ON"
    THEN [u EXCEPT !.ret = "IPS_ALERT"]
    ELSE IF dir = "DOME_CW"
    THEN IF u.o.fullyOpenedLimitSwitch = "ISS_ON"
         THEN [SetParked(u, FALSE) EXCEPT !.ret = "IPS_ALERT"]
         ELSE MovePushedMut(roofOpen(u, env), env, dir)
    ELSE IF u.o.fullyClosedLimitSwitch = "ISS_ON"
         THEN [SetParked(u, TRUE) EXCEPT !.ret = "IPS_ALERT"]
         ELSE IF env.mount
         THEN [u EXCEPT !.ret = "IPS_ALERT"]
         ELSE MovePushedMut(roofClose(u, env), env, dir)

\* A variant of the close branch that does not ask whether the mount locks.
CloseUpdatedMut(u, env, dir) ==
    IF u.o.fullyClosedLimitSwitch = "ISS_ON"
    THEN [SetParked(u, TRUE) EXCEPT !.ret = "IPS_ALERT"]
    ELSE MovePushed(roofClose(u, env), env, dir)

\* Lines 816-842, the close branch; env.mount is INDI::Dome::isLocked().
CloseUpdated(u, env, dir) ==
    IF u.o.fullyClosedLimitSwitch = "ISS_ON"
    THEN [SetParked(u, TRUE) EXCEPT !.ret = "IPS_ALERT"]
    ELSE IF env.mount
    THEN [u EXCEPT !.ret = "IPS_ALERT"]
    ELSE MovePushed(roofClose(u, env), env, dir)

\* Move from line 771 on: u is the driver after updateRoofStatus.
MoveUpdated(u, env, dir, operation) ==
    IF operation # "MOTION_START" THEN [u EXCEPT !.ret = "IPS_ALERT"]
    ELSE IF u.o.roofLockedSwitch = "ISS_ON"
    THEN [u EXCEPT !.ret = "IPS_ALERT"]
    ELSE IF MotionUnderWay(u.o) THEN [u EXCEPT !.ret = "IPS_OK"]
    ELSE IF dir = "DOME_CW"
    THEN IF u.o.fullyOpenedLimitSwitch = "ISS_ON"
         THEN [SetParked(u, FALSE) EXCEPT !.ret = "IPS_ALERT"]
         ELSE MovePushed(roofOpen(u, env), env, dir)
    ELSE CloseUpdated(u, env, dir)

Move(c, env, dir, operation) ==
    MoveUpdated(updateRoofStatus(c, env), env, dir, operation)

(***************************************************************************)
(* INDI::Dome::Move, through which every motion request reaches Move: a    *)
(* request for the direction already under way is answered at once; else   *)
(* the state Move returns is stored in DomeMotionSP and, when that is BUSY *)
(* or OK, the switch of the direction is turned on.                        *)
(***************************************************************************)
\* m is the driver after Move.
DomeMoved(m, dir, operation) ==
    IF m.o.crashed THEN m
    ELSE IF m.ret \in {"IPS_BUSY", "IPS_OK"}
    THEN [m EXCEPT !.o.DomeMotionSP =
                       [s |-> m.ret,
                        on |-> IF operation = "MOTION_START"
                               THEN dir ELSE "none"]]
    ELSE [m EXCEPT !.o.DomeMotionSP.s = m.ret]

DomeMove(c, env, dir, operation) ==
    IF /\ c.o.DomeMotionSP.s = "IPS_BUSY" /\ c.o.DomeMotionSP.on = dir
       /\ operation = "MOTION_START"
    THEN [c EXCEPT !.ret = "IPS_BUSY"]
    ELSE DomeMoved(Move(c, env, dir, operation), dir, operation)

(***************************************************************************)
(* RollOffIno::Abort; the park property it resets at the end is not part   *)
(* of the state.                                                           *)
(***************************************************************************)
\* Lines 924-942: a is the driver after roofAbort.
AbortPushed(a) == IF a.o.crashed THEN a ELSE [a EXCEPT !.ret = TRUE]

\* Abort from line 896 on: u is the driver after updateRoofStatus.
AbortUpdated(u, env) ==
    IF \/ u.o.roofLockedSwitch = "ISS_ON"
       \/ u.o.fullyClosedLimitSwitch = "ISS_ON"
       \/ u.o.fullyOpenedLimitSwitch = "ISS_ON"
    THEN [u EXCEPT !.ret = TRUE]
    ELSE IF u.o.DomeMotionSP.s # "IPS_BUSY" THEN [u EXCEPT !.ret = TRUE]
    ELSE AbortPushed(roofAbort([u EXCEPT !.o.roofClosing = FALSE,
                                         !.o.roofOpening = FALSE,
                                         !.o.MotionRequest = -1], env))

Abort(c, env) == AbortUpdated(updateRoofStatus(c, env), env)

\* INDI::Dome::Abort, the caller of Abort: when Abort returns true the dome
\* state becomes DOME_IDLE.  a is the driver after Abort.
DomeAborted(a) ==
    IF a.o.crashed THEN a
    ELSE IF a.ret THEN setDomeState(a, "DOME_IDLE") ELSE a

DomeAbort(c, env) == DomeAborted(Abort(c, env))

(***************************************************************************)
(* checkConditions.                                                        *)
(***************************************************************************)
\* A variant of ParkAgrees that leaves a parked dome parked when the roof
\* is found open.
ParkAgreesMut(u) ==
    IF u.o.IsParked
    THEN IF u.o.fullyClosedLimitSwitch = "ISS_OFF" THEN u
         ELSE setDomeState(u, "DOME_PARKED")
    ELSE IF u.o.fullyClosedLimitSwitch = "ISS_ON" THEN SetParked(u, TRUE)
         ELSE IF u.o.fullyOpenedLimitSwitch = "ISS_OFF" THEN u
         ELSE setDomeState(u, "DOME_UNPARKED")

\* Lines 315-360: u is the driver after the two updates.
ParkAgrees(u) ==
    IF u.o.IsParked
    THEN IF u.o.fullyOpenedLimitSwitch = "ISS_ON" THEN SetParked(u, FALSE)
         ELSE IF u.o.fullyClosedLimitSwitch = "ISS_OFF" THEN u
         ELSE setDomeState(u, "DOME_PARKED")
    ELSE IF u.o.fullyClosedLimitSwitch = "ISS_ON" THEN SetParked(u, TRUE)
         ELSE IF u.o.fullyOpenedLimitSwitch = "ISS_OFF" THEN u
         ELSE setDomeState(u, "DOME_UNPARKED")

checkConditions(c, env) ==
    ParkAgrees(updateActionStatus(updateRoofStatus(c, env), env))

(***************************************************************************)
(* TimerHit.  CalcTimeLeft is taken at entry, in seconds.                  *)
(***************************************************************************)
CalcTimeLeft(c, env) == c.o.MotionRequest - (env.now - c.o.MotionStart)

\* initProperties as called from TimerHit: the properties are filled anew,
\* the members of RollOffIno are left as they are.
initProperties(c) == [DomeInitProperties(c) EXCEPT !.lights = LightsInit]

\* INDI::Dome::Disconnect closes the serial port.
Disconnect(c) == [c EXCEPT !.o.connected = FALSE]

\* A variant of the test below that already gives up at the limit.
ThresholdMut(c) ==
    IF c.o.communicationErrors >= MAX_CNTRL_COM_ERR
    THEN [initProperties(Disconnect(c))
            EXCEPT !.o.communicationErrors = 0,
                   !.peak = c.o.communicationErrors]
    ELSE [c EXCEPT !.peak = c.o.communicationErrors]

\* The test that ends TimerHit; peak records the counter it tests.
Threshold(c) ==
    IF c.o.communicationErrors > MAX_CNTRL_COM_ERR
    THEN [initProperties(Disconnect(c))
            EXCEPT !.o.communicationErrors = 0,
                   !.peak = c.o.communicationErrors]
    ELSE [c EXCEPT !.peak = c.o.communicationErrors]

\* A variant of PollOpening that looks at the time left before it looks at
\* the limit switch.
PollOpeningMut(c, timeleft) ==
    IF timeleft <= 0
    THEN [SetParked([setDomeState(c, "DOME_IDLE")
                       EXCEPT !.o.roofOpening = FALSE], FALSE)
            EXCEPT !.o.roofTimedOut = "EXPIRED_OPEN"]
    ELSE IF c.o.fullyOpenedLimitSwitch = "ISS_ON"
    THEN SetParked(c, FALSE)
    ELSE [c EXCEPT !.delay = 1000]

\* Lines 680-700 and 702-722: the poll of a roof that is opening, closing.
PollOpening(c, timeleft) ==
    IF c.o.fullyOpenedLimitSwitch = "ISS_ON"
    THEN SetParked(c, FALSE)
    ELSE IF timeleft <= 0
    THEN [SetParked([setDomeState(c, "DOME_IDLE")
                       EXCEPT !.o.roofOpening = FALSE], FALSE)
            EXCEPT !.o.roofTimedOut = "EXPIRED_OPEN"]
    ELSE [c EXCEPT !.delay = 1000]

PollClosing(c, timeleft) ==
    IF c.o.fullyClosedLimitSwitch = "ISS_ON"
    THEN SetParked(c, TRUE)
    ELSE IF timeleft <= 0
    THEN [SetParked([setDomeState(c, "DOME_IDLE")
                       EXCEPT !.o.roofClosing = FALSE], FALSE)
            EXCEPT !.o.roofTimedOut = "EXPIRED_CLOSE"]
    ELSE [c EXCEPT !.delay = 1000]

\* Lines 650-665: the simulated switches follow the motion as its time
\* runs out.
SimulateSwitches(c, timeleft) ==
    IF c.o.simulation /\ timeleft - 5 <= 0
    THEN IF c.o.DomeMotionSP.on = "DOME_CW"
         THEN [c EXCEPT !.o.simRoofOpen = TRUE, !.o.simRoofClosed = FALSE]
         ELSE IF c.o.DomeMotionSP.on = "DOME_CCW"
         THEN [c EXCEPT !.o.simRoofClosed = TRUE, !.o.simRoofOpen = FALSE]
         ELSE c
    ELSE c

\* Lines 669-730: u is the driver after the two updates, with the delay of
\* an inactive roof.
PollMotion(u, env, timeleft) ==
    IF u.o.DomeMotionSP.s = "IPS_BUSY"
    THEN IF u.o.MotionRequest < 0
         THEN setDomeState(u, "DOME_IDLE")
         ELSE IF u.o.DomeMotionSP.on = "DOME_CW"
         THEN PollOpening(u, timeleft)
         ELSE IF u.o.DomeMotionSP.on = "DOME_CCW"
         THEN PollClosing(u, timeleft)
         ELSE u
    ELSE checkConditions(u, env)

TimerHit(c, env) ==
    IF ~c.o.connected THEN c
    ELSE Threshold(
             PollMotion(
                 SetTimer(
                     updateActionStatus(
                         updateRoofStatus(
                             SimulateSwitches(c, CalcTimeLeft(c, env)), env),
                         env),
                     1000 * INACTIVE_STATUS),
                 env, CalcTimeLeft(c, env)))
(***************************************************************************)
(* initialContact and Handshake.                                           *)
(***************************************************************************)
\* initialContact after readIno: x is what readIno, evaluateResponse and
\* the parse of lines 1220-1241 make of the reply.
ContactAnswer(w, env, x) ==
    IF x.read.pc # "accept"
    THEN [w EXCEPT !.o.communicationErrors = @ + x.read.errs,
                   !.ret = FALSE, !.good = FALSE, !.failed = @ + 1]
    ELSE IF x.eval.fault # "none"
    THEN [Undefined(w, env) EXCEPT !.ret = FALSE, !.good = FALSE,
                                   !.failed = @ + 1]
    ELSE IF ~x.eval.ok THEN [w EXCEPT !.ret = FALSE, !.good = FALSE]
    ELSE IF x.parse.fault # "none"
    THEN [Undefined(w, env) EXCEPT !.o.contactEstablished = TRUE,
                                   !.ret = TRUE, !.good = TRUE]
    ELSE [w EXCEPT !.o.contactEstablished = TRUE,
                   !.o.actionCount = x.parse.count,
                   !.ret = TRUE, !.good = TRUE]

\* initialContact from the write on: w is the driver after writeIno.
ContactWritten(w, env) ==
    IF ~w.ret THEN w
    ELSE ContactAnswer(w, env,
                       env.line[<<FaultKind(env, w.rt), ZERO, VersionText>>])

initialContact(c, env) ==
    ContactWritten(writeIno([c EXCEPT !.o.contactEstablished = FALSE,
                                      !.o.actionCount = 0],
                            env, Frame(CON, ZERO, ZERO)),
                   env)

\* first is the driver after the first initialContact.
HandshakeAgain(first, env) ==
    IF first.ret \/ first.o.crashed THEN first
    ELSE initialContact(first, env)

Handshake(c, env) == HandshakeAgain(initialContact(c, env), env)

\* Connect after the handshake: once connected, updateProperties takes the
\* park status from the park data (env.parked) and calls checkConditions.
Connected(h, env) ==
    IF h.o.crashed \/ ~h.ret THEN h
    ELSE [checkConditions(
              setDomeState(
                  setDomeState([h EXCEPT !.o.connected = TRUE,
                                         !.o.IsParked = env.parked],
                               "DOME_IDLE"),
                  IF env.parked THEN "DOME_PARKED" ELSE "DOME_UNPARKED"),
              env)
            EXCEPT !.ret = TRUE]

Connect(c, env) == Connected(Handshake(c, env), env)

(***************************************************************************)
(* State.                                                                  *)
(*   roof  the driver object: the members of RollOffIno and of INDI::Dome  *)
(*   dev   what the controller's switches read                             *)
(*   now   the clock, in seconds                                           *)
(*   last  what the driver did in the step just taken, NoOp after a step   *)
(*         of the clock or of the roof: the operation, what it returned,   *)
(*         the SET frames it wrote and what came back for the last one,    *)
(*         whether its last round trip succeeded, the error count TimerHit *)
(*         tested, the timer delay that was armed, the round trips it      *)
(*         started, and the motion state the operation found               *)
(*   rd    the state of a readIno call that is followed byte by byte       *)
(*   inp   the byte stream that call reads                                 *)
(***************************************************************************)
VARIABLES roof, dev, now, last, rd, inp, labels

vars == <<roof, dev, now, last, rd, inp, labels>>

\* No fault, or one round trip that goes wrong; with lo = 0 also all of them.
Plans(kinds, lo) == {NoFault} \cup [kind : kinds, at : lo..LastSlot]
UBChoices(plan) == IF plan.kind = "silent" THEN {"crash", "survive"}
                   ELSE {"crash"}

Env(plan, ub) == [dev |-> dev, plan |-> plan, ub |-> ub, now |-> now,
                  mount |-> FALSE, parked |-> FALSE, line |-> Exchanges]

\* What an operation found when it was called.
Before(o) ==
    [opening |-> o.roofOpening, closing |-> o.roofClosing,
     tag |-> o.roofTimedOut, request |-> o.MotionRequest,
     start |-> o.MotionStart, motion |-> o.DomeMotionSP,
     errors |-> o.communicationErrors, contact |-> o.contactEstablished,
     parked |-> o.IsParked]

Done(op, c) ==
    [op |-> op, ret |-> c.ret, sets |-> SelectSeq(c.sent, LAMBDA msg : SubSeq(msg, 2, 4) = SET),
     answer |-> c.answer, good |-> c.good, peak |-> c.peak,
     delay |-> c.delay, trips |-> c.rt, misses |-> c.misses,
     mount |-> c.mount, slot |-> c.slot, frames |-> c.sent,
     msg |-> c.msg, failed |-> c.failed, lights |-> c.lights,
     lock |-> c.lock, poll |-> 0,
     before |-> Before(roof)]

\* The step of an operation op that leaves the driver as c.
Finish(op, c) ==
    /\ roof' = c.o
    /\ last' = Done(op, c)

NoOp == [op |-> "none", ret |-> FALSE, sets |-> <<>>, answer |-> "unsent",
         good |-> FALSE, peak |-> -1, delay |-> 0, trips |-> 0, misses |-> {},
         mount |-> FALSE, slot |-> -1, frames |-> <<>>,
         msg |-> <<>>, failed |-> 0, lights |-> LightsInit,
         lock |-> "unread", poll |-> 0,
         before |-> [opening |-> FALSE, closing |-> FALSE,
                     tag |-> "EXPIRED_CLEAR", request |-> 0, start |-> 0,
                     motion |-> [s |-> "IPS_OK", on |-> "none"],
                     errors |-> 0, contact |-> FALSE, parked |-> FALSE]]

\* The members after construction (rolloffino.h) and initProperties.
RoofInit(timeout) ==
    [roofOpening |-> FALSE, roofClosing |-> FALSE,
     roofTimedOut |-> "EXPIRED_CLEAR",
     MotionRequest |-> 0, MotionStart |-> 0,
     fullyOpenedLimitSwitch |-> "ISS_OFF", fullyClosedLimitSwitch |-> "ISS_OFF",
     roofLockedSwitch |-> "ISS_OFF", roofAuxiliarySwitch |-> "ISS_OFF",
     communicationErrors |-> 0, contactEstablished |-> FALSE,
     actionCount |-> 0, RoofTimeout |-> timeout,
     simulation |-> FALSE, simRoofOpen |-> FALSE, simRoofClosed |-> FALSE,
     crashed |-> FALSE, connected |-> FALSE,
     DomeMotionSP |-> [s |-> "IPS_OK", on |-> "none"],
     IsParked |-> FALSE,
     actionSwitches |-> [i \in 0..(MAX_ACTIONS - 1) |-> FALSE]]

ReadIdle == /\ rd = ReadStart
            /\ inp = Finite(<<>>)

Members ==
    /\ \E t \in 1..MaxTimeout : roof = RoofInit(t)
    /\ dev = [opened |-> FALSE, closed |-> TRUE, locked |-> FALSE]
    /\ now = StartTime
    /\ last = NoOp

(***************************************************************************)
(* The action labels, lines 142-180 of initProperties.  labels.config is   *)
(* what the configuration file holds for the eight label texts,            *)
(* labels.text is labelsT[i].text and labels.shown[i] is the label the     *)
(* switches and the light of action i are filled with.                     *)
(***************************************************************************)
Slots == 0..(MAX_ACTIONS - 1)

\* sprintf(var_act, "Action %d", i+1)
ActionName(i) == <<"A", "c", "t", "i", "o", "n", " ", Digit(i + 1)>>

\* sprintf(aLabel, "Duplicate Label %d", j)
DuplicateLabel(j) ==
    <<"D", "u", "p", "l", "i", "c", "a", "t", "e", " ",
      "L", "a", "b", "e", "l", " ", Digit(j)>>

\* Lines 143-150: every text is filled with its action name, then loadConfig
\* puts the texts of the configuration file in their place.
LoadLabels(config) ==
    [config |-> config, text |-> config, shown |-> [i \in Slots |-> <<>>],
     overrun |-> FALSE]

\* The first j < i whose text equals text i, or -1 (lines 164-172).
FirstEqual(text, i) ==
    IF \E j \in 0..(i - 1) : text[j] = text[i]
    THEN CHOOSE j \in 0..(i - 1) :
            /\ text[j] = text[i]
            /\ \A k \in 0..(j - 1) : text[k] # text[i]
    ELSE -1

\* Lines 154-179 for slot i, j being FirstEqual.  The sprintf writes into
\* the text of slot i, which libindi allocated for the text it held.
LabelSlot(l, i, j) ==
    IF Len(l.text[i]) = 0
    THEN [l EXCEPT !.shown[i] = ActionName(i)]
    ELSE IF j >= 0
    THEN [l EXCEPT !.text[i] = DuplicateLabel(j),
                   !.shown[i] = DuplicateLabel(j),
                   !.overrun = @ \/ Len(l.text[i]) < Len(DuplicateLabel(j))]
    ELSE [l EXCEPT !.shown[i] = l.text[i]]

RECURSIVE EachLabel(_, _)
EachLabel(l, i) ==
    IF i = MAX_ACTIONS THEN l
    ELSE EachLabel(LabelSlot(l, i, FirstEqual(l.text, i)), i + 1)

ActionLabels(config) == EachLabel(LoadLabels(config), 0)

\* The configuration file as the driver first writes it.
DefaultLabels == [i \in Slots |-> ActionName(i)]

DriverInit ==
    /\ Members
    /\ labels = ActionLabels(DefaultLabels)

Init == DriverInit /\ ReadIdle

Alive == ~roof.crashed

DoConnect(plans) ==
    /\ Alive /\ ~roof.connected
    /\ \E plan \in plans, parked \in BOOLEAN :
          Finish("Connect",
                 Connect(Enter(roof),
                         [Env(plan, "crash") EXCEPT !.parked = parked]))
    /\ UNCHANGED <<dev, now, rd, inp, labels>>

DoMove(plans, dir, operation, mounts) ==
    /\ Alive /\ roof.connected
    /\ \E plan \in plans, mount \in mounts : \E ub \in UBChoices(plan) :
          Finish(IF operation # "MOTION_START" THEN "Stop"
                 ELSE IF dir = "DOME_CW" THEN "Open" ELSE "Close",
                 DomeMove([Enter(roof) EXCEPT !.mount = mount],
                          [Env(plan, ub) EXCEPT !.mount = mount],
                          dir, operation))
    /\ UNCHANGED <<dev, now, rd, inp, labels>>

DoAbort(plans) ==
    /\ Alive /\ roof.connected
    /\ \E plan \in plans : \E ub \in UBChoices(plan) :
          Finish("Abort", DomeAbort(Enter(roof), Env(plan, ub)))
    /\ UNCHANGED <<dev, now, rd, inp, labels>>

DoPoll(plans) ==
    /\ Alive
    /\ \E plan \in plans :
          Finish("TimerHit", TimerHit(Enter(roof), Env(plan, "crash")))
    /\ UNCHANGED <<dev, now, rd, inp, labels>>

Tick ==
    /\ Alive /\ now < StartTime + MaxTime
    /\ now' = now + 1
    /\ last' = NoOp
    /\ UNCHANGED <<roof, dev, rd, inp, labels>>

SwitchChange ==
    /\ Alive
    /\ \E f \in {"opened", "closed", "locked"} : dev' = [dev EXCEPT ![f] = ~@]
    /\ last' = NoOp
    /\ UNCHANGED <<roof, now, rd, inp, labels>>

(***************************************************************************)
(* Spec: the driver on a sound line.  Requests from the client, the poll,  *)
(* the clock, and the roof's switches changing under the driver.           *)
(***************************************************************************)
ConnectUp == DoConnect({NoFault})
MoveOpen == DoMove({NoFault}, "DOME_CW", "MOTION_START", {FALSE})
MoveClose == DoMove({NoFault}, "DOME_CCW", "MOTION_START", BOOLEAN)
MoveStop ==
    /\ roof.DomeMotionSP.on # "none"
    /\ DoMove({NoFault}, roof.DomeMotionSP.on, "MOTION_STOP", {FALSE})
AbortMotion == DoAbort({NoFault})
Poll == DoPoll({NoFault})

Next ==
    \/ ConnectUp
    \/ MoveOpen
    \/ MoveClose
    \/ MoveStop
    \/ AbortMotion
    \/ Poll
    \/ Tick
    \/ SwitchChange

Spec == Init /\ [][Next]_vars

(***************************************************************************)
(* SpecLive: the driver on a sound line with the poll timer always         *)
(* re-armed (SetTimer at the end of TimerHit, line 744) and the clock      *)
(* running up to its bound.  Of an operation the steps record only        *)
(* whether it was a poll or a request of a client.                         *)
(***************************************************************************)
\* A client connects, asks for the roof to open or close, or aborts.
LiveRequest ==
    /\ Alive
    /\ \/ /\ ~roof.connected
          /\ \E parked \in BOOLEAN :
                roof' = Connect(Enter(roof),
                                [Env(NoFault, "crash")
                                   EXCEPT !.parked = parked]).o
       \/ /\ roof.connected
          /\ \E dir \in {"DOME_CW", "DOME_CCW"} :
                roof' = DomeMove(Enter(roof), Env(NoFault, "crash"), dir,
                                 "MOTION_START").o
       \/ /\ roof.connected
          /\ roof' = DomeAbort(Enter(roof), Env(NoFault, "crash")).o
    /\ last' = [NoOp EXCEPT !.op = "Request"]
    /\ UNCHANGED <<dev, now, rd, inp, labels>>

LivePoll ==
    /\ Alive
    /\ roof' = TimerHit(Enter(roof), Env(NoFault, "crash")).o
    /\ last' = [NoOp EXCEPT !.op = "TimerHit", !.poll = 1 - last.poll]
    /\ UNCHANGED <<dev, now, rd, inp, labels>>

SpecLive ==
    /\ Init /\ [][LiveRequest \/ LivePoll \/ Tick \/ SwitchChange]_vars
    /\ WF_now(Tick)

(***************************************************************************)
(* SpecFault: the clock stands still and single round trips go wrong, as   *)
(* long as few errors have been counted.  A garbled frame is left to       *)
(* SpecErr: the driver treats it as it treats a silent line.               *)
(***************************************************************************)
FewPlans ==
    IF roof.communicationErrors < FaultRoom
    THEN Plans({"writefail", "silent", "nak"}, 1)
    ELSE {NoFault}

OpenFaulty == DoMove(FewPlans, "DOME_CW", "MOTION_START", {FALSE})
CloseFaulty == DoMove(FewPlans, "DOME_CCW", "MOTION_START", {FALSE})
AbortFaulty == DoAbort(FewPlans)
PollFaulty == DoPoll(FewPlans)

NextFault ==
    \/ ConnectUp
    \/ OpenFaulty
    \/ CloseFaulty
    \/ AbortFaulty
    \/ PollFaulty
    \/ SwitchChange

SpecFault == Init /\ [][NextFault]_vars

(***************************************************************************)
(* SpecErr: the driver on a bad line.  Roof and clock stand still; any     *)
(* round trip, or all of them, may go wrong whatever the error count.      *)
(***************************************************************************)
ConnectBad ==
    DoConnect(IF roof.communicationErrors <= MAX_CNTRL_COM_ERR
              THEN Plans(Kinds, 0)
              ELSE {NoFault})
PollBad == DoPoll(Plans(Kinds, 0))

NextErr ==
    \/ ConnectBad
    \/ MoveOpen
    \/ PollBad

SpecErr == Init /\ [][NextErr]_vars

(***************************************************************************)
(* SpecRead: one readIno call followed byte by byte on a stream chosen at  *)
(* the start.                                                              *)
(***************************************************************************)
Streams ==
    {Finite(Frame(ACK, ROOF_OPENED_SWITCH, ON)),
     Finite(Frame(NAK, ROOF_OPEN_CMD, ON)),
     Finite(<<"(">> \o ACK),
     Finite(<<"(", ":", ":", ")">>),
     Finite(<<"(", "(", ":", ":", ")">>),
     Finite(<<":", ":", "(">> \o ACK \o <<")">>),
     Endless(<<>>, "a"),
     Endless(<<>>, "("),
     Endless(<<"(">>, "a"),
     Endless(<<"(", ":", ":">>, "a"),
     Endless(<<"x", "y">>, ")"),
     Endless(<<":", ":">>, ")")}

\* The ids of the switches the driver reads, and the controller's positive
\* replies to a read of each.
SwitchReplies ==
    {Frame(ACK, id, v) :
        id \in {ROOF_OPENED_SWITCH, ROOF_CLOSED_SWITCH, ROOF_LOCKED_SWITCH,
                ROOF_AUX_SWITCH}
               \cup {action_state_used(i) : i \in 0..(MAX_ACTIONS - 1)},
        v \in {ON, OFF}}

\* A reply that carries the name of the macro in place of the id.
MacroReplies ==
    {Frame(ACK,
           <<"R", "O", "O", "F", "_", "O", "P", "E", "N", "E", "D", "_",
             "S", "W", "I", "T", "C", "H">>,
           v) : v \in {ON, OFF}}

\* A well-formed frame of n bytes, n > 8: its value text fills it up.
LongFrames ==
    {Frame(ACK, <<"T">>, [i \in 1..(n - 8) |-> "v"]) :
        n \in {MAXINOVAL - 1, MAXINOVAL, MAXINOBUF}}

InitRead ==
    /\ DriverInit
    /\ rd = ReadStart
    /\ inp \in Streams \cup
               {Finite(f) : f \in SwitchReplies \cup MacroReplies \cup LongFrames}

ReadByte ==
    /\ rd.pc = "reading"
    /\ rd.nread < MAXINOBUF + MaxExtraBytes
    /\ rd' = ReadStep(rd, ByteAt(inp, rd.nread + 1))
    /\ UNCHANGED <<roof, dev, now, last, inp, labels>>

SpecRead == InitRead /\ [][ReadByte]_vars

(***************************************************************************)
(* SpecTrip: one readIno call followed byte by byte on a well-formed frame *)
(* chosen at the start: any verb of the protocol, a target of 1 to         *)
(* MAXINOTARGET characters, and a value of 0, ON or OFF.                   *)
(***************************************************************************)
Frames ==
    {Frame(v, t, x) :
        v \in {ACK, NAK, GET, SET, CON},
        t \in {ZERO} \cup {[i \in 1..n |-> "T"] : n \in 1..MAXINOTARGET},
        x \in {ZERO, ON, OFF}}

InitTrip ==
    /\ DriverInit
    /\ rd = ReadStart
    /\ inp \in {Finite(f) : f \in Frames}

SpecTrip == InitTrip /\ [][ReadByte]_vars

(***************************************************************************)
(* SpecContact: initialContact, again and again, each time on a reply to   *)
(* (CON:0:0) that is well formed as a frame: verb ACK, NAK or CON, target  *)
(* 0, and a version text that may carry a bracketed suffix of some form.   *)
(***************************************************************************)
Prefixes == {<<"V", "1", ".", "3", "-", "0">>,
             <<"V", "1", ".", "3", "-", "0", " ", " ">>}
Suffixes ==
    {<<>>} \cup
    {<<"[">> \o tag \o num \o close :
        tag \in {<<"A", "C", "T">>, <<"B", "O", "T">>, <<"T">>, <<>>},
        num \in {<<Digit(i)>> : i \in {0, 1, 4, 8, 9}} \cup {<<"1", "2">>},
        close \in {<<"]">>, <<>>}}
ContactReplies ==
    {Frame(verb, ZERO, pre \o suf) :
        verb \in {ACK, NAK, CON}, pre \in Prefixes, suf \in Suffixes}

\* The line on which the controller answers (CON:0:0) with reply.
EnvOn(reply, ub) ==
    [Env(NoFault, ub) EXCEPT
       !.line = (<<"none", ZERO, VersionText>> :>
                    ExchangeOf(readIno(Finite(reply))))]

Contact ==
    /\ Alive
    /\ \E reply \in ContactReplies, ub \in {"crash", "survive"} :
          /\ inp' = Finite(reply)
          /\ Finish("Contact", initialContact(Enter(roof), EnvOn(reply, ub)))
    /\ UNCHANGED <<dev, now, rd, labels>>

SpecContact == Init /\ [][Contact]_vars

(***************************************************************************)
(* SpecLabels: initProperties on a configuration file whose eight label    *)
(* texts are drawn from a few texts, the empty one among them.  Writing a  *)
(* duplicate label beyond the end of the text it replaces is undefined.    *)
(***************************************************************************)
LabelTexts == {<<>>, <<"A">>, <<"B">>}

InitLabels ==
    /\ Members /\ ReadIdle
    /\ labels \in {LoadLabels(config) : config \in [Slots -> LabelTexts]}

Labelled(l, ub) ==
    /\ labels' = IF l.overrun /\ ub = "crash" THEN labels ELSE l
    /\ roof' = [roof EXCEPT !.crashed = l.overrun /\ ub = "crash"]
    /\ last' = [NoOp EXCEPT !.op = "initProperties", !.ret = TRUE]

FillLabels ==
    /\ Alive
    /\ \E ub \in {"crash", "survive"} :
          Labelled(ActionLabels(labels.config), ub)
    /\ UNCHANGED <<dev, now, rd, inp>>

SpecLabels == InitLabels /\ [][FillLabels]_vars

(***************************************************************************)
(* SpecAction: a controller that announces any number of actions at the    *)
(* initial contact, and a client that turns the action switches on and     *)
(* off.                                                                    *)
(***************************************************************************)
\* The controller answers (CON:0:0) with the version text of n actions.
Announce ==
    /\ Alive
    /\ \E n \in 0..9 :
          Finish("Contact",
                 initialContact(
                     Enter(roof),
                     EnvOn(Frame(ACK, ZERO,
                                 <<"V", "1", ".", "3", "-", "0">> \o
                                 (IF n > 0
                                  THEN <<"[", "A", "C", "T", Digit(n), "]">>
                                  ELSE <<>>)),
                           "crash")))
    /\ UNCHANGED <<dev, now, rd, inp, labels>>

\* A client turns an action switch on or off; at most MaxSwitchedOn are on.
ToggleAction ==
    /\ Alive
    /\ \E i \in 0..(MAX_ACTIONS - 1), switchOn \in BOOLEAN :
          /\ switchOn =>
                Cardinality({j \in 0..(MAX_ACTIONS - 1) :
                                roof.actionSwitches[j]} \cup {i})
                    <= MaxSwitchedOn
          /\ Finish("Action",
                    NewActionSwitch([Enter(roof) EXCEPT !.slot = i],
                                    Env(NoFault, "crash"), i, switchOn))
    /\ UNCHANGED <<dev, now, rd, inp, labels>>

SpecAction == Init /\ [][Announce \/ ToggleAction]_vars

(***************************************************************************)
(* SpecWrite: writeIno on request frames of every length up to a little    *)
(* beyond MAXINOLINE, on a line that takes what is written.                *)
(***************************************************************************)
Write ==
    /\ Alive
    /\ \E msg \in {Frame(verb, [i \in 1..n |-> "T"], ZERO) :
                       verb \in {GET, SET},
                       n \in 1..(MAXINOLINE + MaxExtraBytes - 8)} :
          Finish("writeIno",
                 writeIno([Enter(roof) EXCEPT !.msg = msg],
                          Env(NoFault, "crash"), msg))
    /\ UNCHANGED <<dev, now, rd, inp, labels>>

SpecWrite == Init /\ [][Write]_vars
(***************************************************************************)
(* Properties.  Each is stated on the state after a step: last tells which *)
(* operation the step was, what it found and what it did.                  *)
(***************************************************************************)
Polled == last.op = "TimerHit" /\ last.peak >= 0
Requested == last.op \in {"Open", "Close"}

\* C1: in every reachable state of the driver under open, close and stop
\* requests, aborts, polls, the clock and changes of the switch readings,
\* roofOpening and roofClosing are not both true.
C1_FlagsExclusive == ~(roof.roofOpening /\ roof.roofClosing)

\* A close request has just been made of a roof that is opening.
C1_Witness ==
    /\ last.op = "Close" /\ last.before.opening
    /\ roof.roofOpening /\ ~roof.roofClosing

\* C2: when the controller's lock switch reads ON, an open request, a close
\* request and an abort write no command (SET) frame, whatever the flags,
\* the limit switches and the line do.
C2_LockedSendsNothing ==
    (dev.locked /\ last.op \in {"Open", "Close", "Abort"}) => last.sets = <<>>

\* An open request passes the tests of Move on a lock state kept from before
\* the lock was engaged, as the read that would have renewed it failed, and
\* is stopped by the fifth read of the request, the one in pushRoofButton.
C2_Witness ==
    /\ dev.locked /\ last.op = "Open"
    /\ roof.fullyOpenedLimitSwitch = "ISS_OFF"
    /\ ~last.before.opening /\ ~last.before.closing
    /\ last.trips = 5 /\ last.good
    /\ roof.roofLockedSwitch = "ISS_ON"
    /\ last.ret = "IPS_ALERT" /\ last.sets = <<>>

\* C3: an open or close request whose command frame the controller answers
\* with a well-formed NAK fails: Move returns IPS_ALERT, neither motion flag
\* is set by it and no timer is armed for a deadline.
C3_NakLeavesIdle ==
    (Requested /\ last.answer = "nak") =>
        /\ last.ret = "IPS_ALERT"
        /\ roof.roofOpening = last.before.opening
        /\ roof.roofClosing = last.before.closing
        /\ last.delay = 0

\* C4: after an operation whose last round trip succeeded (a frame written
\* and a positive response read) communicationErrors is 0.
C4_SuccessResetsErrors == last.good => roof.communicationErrors = 0

\* C5: a poll that finds communicationErrors above 10 disconnects, fills the
\* properties anew and leaves the counter at 0; a poll that finds it at 10
\* or below stays connected and leaves the counter as it is.
C5_ResetAboveTen ==
    Polled =>
        IF last.peak > 10
        THEN /\ ~roof.connected
             /\ roof.communicationErrors = 0
             /\ roof.DomeMotionSP = [s |-> "IPS_OK", on |-> "none"]
        ELSE /\ roof.connected
             /\ roof.communicationErrors = last.peak

\* A poll has found the counter at 11 and has disconnected.
C5_Witness ==
    /\ Polled /\ last.peak = MAX_CNTRL_COM_ERR + 1
    /\ ~roof.connected /\ roof.communicationErrors = 0

\* C6: a poll that finds the roof opening (closing) with the opened (closed)
\* limit switch not ON ends the motion when the time allowed has passed
\* since it started: the flag is cleared and roofTimedOut is EXPIRED_OPEN
\* (EXPIRED_CLOSE); before that time the poll leaves roofTimedOut alone.
C6_TimeoutEndsMotion ==
    Polled =>
        /\ (last.before.opening /\ ~dev.opened) =>
              IF now >= last.before.start + last.before.request
              THEN ~roof.roofOpening /\ roof.roofTimedOut = "EXPIRED_OPEN"
              ELSE roof.roofTimedOut = last.before.tag
        /\ (last.before.closing /\ ~dev.closed) =>
              IF now >= last.before.start + last.before.request
              THEN ~roof.roofClosing /\ roof.roofTimedOut = "EXPIRED_CLOSE"
              ELSE roof.roofTimedOut = last.before.tag

\* The motion property is busy in direction dir and the motion is not aborted.
Moving(before, dir) ==
    /\ before.motion = [s |-> "IPS_BUSY", on |-> dir]
    /\ before.request >= 0

\* C7: a poll during a motion that reads the target limit switch ON ends the
\* motion as completed, unparked for an open and parked for a close, and
\* leaves roofTimedOut as it was, also when the time allowed has passed.
C7_LimitSwitchWins ==
    Polled =>
        /\ (Moving(last.before, "DOME_CW") /\ dev.opened) =>
              /\ ~roof.IsParked
              /\ roof.DomeMotionSP.s # "IPS_BUSY"
              /\ roof.roofTimedOut = last.before.tag
        /\ (Moving(last.before, "DOME_CCW") /\ dev.closed) =>
              /\ roof.IsParked
              /\ roof.DomeMotionSP.s # "IPS_BUSY"
              /\ roof.roofTimedOut = last.before.tag

\* A poll at the deadline of an opening finds the opened switch ON.
C7_Witness ==
    /\ Polled /\ Moving(last.before, "DOME_CW") /\ dev.opened
    /\ last.before.opening
    /\ now >= last.before.start + last.before.request
    /\ ~roof.IsParked /\ roof.roofTimedOut = "EXPIRED_CLEAR"

\* The request is answered as in progress and changes nothing.
InProgress ==
    /\ last.ret \in {"IPS_OK", "IPS_BUSY"}
    /\ last.sets = <<>>
    /\ roof.roofOpening = last.before.opening
    /\ roof.roofClosing = last.before.closing
    /\ roof.MotionRequest = last.before.request
    /\ roof.MotionStart = last.before.start
    /\ roof.roofTimedOut = last.before.tag

\* The switches show the motion that the request found under way as ended.
Arrived(before) ==
    \/ before.opening /\ dev.opened /\ ~dev.closed
    \/ before.closing /\ dev.closed /\ ~dev.opened

C9_SessionReinitialised ==
    (Polled /\ last.peak > 10) =>
        /\ roof.communicationErrors = 0
        /\ ~roof.roofOpening /\ ~roof.roofClosing
        /\ roof.roofTimedOut = "EXPIRED_CLEAR"
        /\ ~roof.contactEstablished
        /\ roof.actionCount = 0

\* C10: readIno has returned, accepting or rejecting, by the time it has
\* consumed MAXINOBUF bytes of a stream that keeps delivering.
C10_ReadEnds == rd.nread >= MAXINOBUF => rd.pc \in {"accept", "reject"}

\* C11: once two bytes have been consumed and neither was the opening
\* delimiter, readIno has rejected the input.
C11_RejectAfterTwo == (rd.nread = 2 /\ ~rd.startFound) => rd.pc = "reject"

\* C12: a buffer that readIno has accepted holds a verb, a target and a
\* value: evaluateResponse finds all three tokens in it, each fitting its
\* array.
C12_AcceptedHasFields ==
    rd.pc = "accept" => evaluateResponse(rd.buf).fault = "none"

\* C13: readIno accepts every well-formed frame whose target has 1 to 15
\* characters and whose value is 0, ON or OFF, and the verb, target and
\* value that evaluateResponse takes out of the buffer are those of the
\* frame.
C13_RoundTrip ==
    (inp.head \in Frames /\ rd.pc # "reading") =>
        /\ rd.pc = "accept"
        /\ Frame(Tokens(rd.buf).inoCmd, Tokens(rd.buf).inoTarget,
                 Tokens(rd.buf).inoVal) = inp.head

\* The read of a switch on the reply in inp has succeeded with the result
\* that the value of the reply stands for.
SwitchRead ==
    /\ rd.pc = "accept"
    /\ Tokens(rd.buf) = Tokens(inp.head)
    /\ Tokens(rd.buf).inoCmd = ACK
    /\ evaluateResponse(rd.buf) =
           [ok |-> TRUE, result |-> (Tokens(inp.head).inoVal = ON),
            fault |-> "none"]

ActSuffix(n) == <<"[", "A", "C", "T", Digit(n), "]">>
Announces(text, n) == \E pre \in Prefixes : text = pre \o ActSuffix(n)
Announced(text) ==
    IF \E n \in 1..8 : Announces(text, n)
    THEN CHOOSE n \in 1..8 : Announces(text, n)
    ELSE 0

\* C15: initialContact returns; when it returns true, contactEstablished is
\* true and actionCount is the number that the version text of the reply
\* announces; when it returns false, contactEstablished is false and
\* actionCount is 0.
C15_ActionCount ==
    last.op = "Contact" =>
        /\ ~roof.crashed
        /\ IF last.ret
           THEN /\ roof.contactEstablished
                /\ roof.actionCount = Announced(Tokens(inp.head).inoVal)
           ELSE /\ ~roof.contactEstablished
                /\ roof.actionCount = 0

\* A getter of the switch kept in member failed in the last operation for
\* want of an answer: the request could not be written, or no well-formed
\* frame came back.
Unread(member) == \E why \in {"write", "read"} : <<member, why>> \in last.misses
SwitchMembers == {"fullyOpenedLimitSwitch", "fullyClosedLimitSwitch",
                  "roofLockedSwitch", "roofAuxiliarySwitch"}

\* C16: after a poll in which the read of a switch failed on a timeout, an
\* I/O error or a malformed frame, the state the driver holds for that
\* switch is ISS_OFF.
C16_FailedReadIsOff ==
    last.op = "TimerHit" =>
        \A member \in SwitchMembers :
            Unread(member) => roof[member] = "ISS_OFF"

\* An abort has just been asked for of a roof that was opening or closing,
\* with the lock switch and both limit switches OFF.
AbortInMotion ==
    /\ last.op = "Abort"
    /\ last.before.opening \/ last.before.closing
    /\ ~dev.locked /\ ~dev.opened /\ ~dev.closed

\* C17: an abort during a motion, with the lock off and neither limit
\* switch ON, writes the abort command, clears roofOpening and roofClosing
\* and sets MotionRequest to -1; a poll that finds MotionRequest negative
\* leaves roofTimedOut and MotionRequest as they are.
C17_AbortEndsMotion ==
    /\ AbortInMotion =>
          /\ last.sets = <<Frame(SET, ROOF_ABORT_CMD, ON)>>
          /\ ~roof.roofOpening /\ ~roof.roofClosing
          /\ roof.MotionRequest = -1
    /\ (last.op = "TimerHit" /\ last.before.request < 0) =>
          /\ roof.roofTimedOut = last.before.tag
          /\ roof.MotionRequest = last.before.request

\* A close has just been asked for while the mount locks, of a roof that
\* is not locked, not opening or closing and not closed.
CloseWhileMountLocks ==
    /\ last.op = "Close" /\ last.mount
    /\ ~dev.locked /\ ~dev.closed
    /\ ~last.before.opening /\ ~last.before.closing

\* C18: a close request made while the mount locks, of a roof that is not
\* locked, not moving and not closed, is answered IPS_ALERT, writes no
\* command (SET) frame and leaves roofOpening and roofClosing false and
\* MotionRequest, MotionStart and roofTimedOut as they were.
C18_MountLockRefuses ==
    CloseWhileMountLocks =>
        /\ last.ret = "IPS_ALERT"
        /\ last.sets = <<>>
        /\ ~roof.roofOpening /\ ~roof.roofClosing
        /\ roof.MotionRequest = last.before.request
        /\ roof.MotionStart = last.before.start
        /\ roof.roofTimedOut = last.before.tag

\* The refused close was asked for of a roof that stands open.
C18_Witness ==
    /\ CloseWhileMountLocks
    /\ dev.opened /\ roof.fullyOpenedLimitSwitch = "ISS_ON"
    /\ last.ret = "IPS_ALERT" /\ last.sets = <<>>

\* Slot i was given a label that an earlier slot was given too.
Collides(config, i) ==
    /\ config[i] # <<>>
    /\ \E j \in 0..(i - 1) : config[j] = config[i]

\* C19: after initProperties, a slot whose non-empty label no earlier slot
\* was given shows that label, a slot whose label an earlier slot was given
\* shows a label "Duplicate Label N", and the labels the eight slots show
\* are pairwise distinct.
C19_LabelsDistinct ==
    (last.op = "initProperties" /\ ~roof.crashed) =>
        /\ \A i \in Slots :
              IF Collides(labels.config, i)
              THEN \E n \in 0..9 : labels.shown[i] = DuplicateLabel(n)
              ELSE labels.config[i] # <<>> => labels.shown[i] = labels.config[i]
        /\ \A i, j \in Slots : i # j => labels.shown[i] # labels.shown[j]

\* After the step the roof is opening or closing, the limit switch of that
\* motion is not ON and the time allowed for it has not passed.
StillMoving ==
    /\ now < roof.MotionStart + roof.MotionRequest
    /\ \/ roof.roofOpening /\ roof.fullyOpenedLimitSwitch # "ISS_ON"
       \/ roof.roofClosing /\ roof.fullyClosedLimitSwitch # "ISS_ON"

\* C20: a poll arms the timer with 1000 ms when it leaves the roof opening
\* or closing with the target limit switch not ON and the time allowed not
\* passed, and with 4000 ms in every other case.
C20_PollDelay ==
    Polled => last.delay = IF StillMoving THEN 1000 ELSE 4000

\* The frames of the last operation that name action i: the SET of its
\* command and the GET of its state.
ActionFrames(i) ==
    {k \in 1..Len(last.frames) :
        last.frames[k] \in {Frame(SET, act_cmd_used(i), ON),
                            Frame(SET, act_cmd_used(i), OFF),
                            Frame(GET, action_state_used(i), ZERO)}}

\* C21: no operation writes a frame that names an action whose index is not
\* below actionCount; a change of the switch of such an action writes no
\* SET frame at all.
C21_UnknownAction ==
    /\ \A i \in 0..(MAX_ACTIONS - 1) :
          i >= roof.actionCount => ActionFrames(i) = {}
    /\ (last.op = "Action" /\ last.slot >= roof.actionCount) => last.sets = <<>>

\* The switch of action 5 has been turned on at a controller that announced
\* four actions, whose states the handler then read.
C21_Witness ==
    /\ last.op = "Action" /\ last.slot = 4
    /\ roof.actionCount = 4 /\ roof.actionSwitches[4]
    /\ ActionFrames(3) # {}

\* How often the character ch stands in s.
Count(s, ch) == Cardinality({k \in 1..Len(s) : s[k] = ch})

\* C22: the buffer readIno accepts begins with its only '(', ends with its
\* only ')' and holds exactly two ':', which are all the ':' that readIno
\* has counted.
C22_AcceptedIsFrame ==
    rd.pc = "accept" =>
        /\ Len(rd.buf) >= 2
        /\ rd.buf[1] = "(" /\ Count(rd.buf, "(") = 1
        /\ rd.buf[Len(rd.buf)] = ")" /\ Count(rd.buf, ")") = 1
        /\ Count(rd.buf, ":") = 2
        /\ rd.delimCount = Count(rd.buf, ":")

\* readIno has rejected, with the start and both delimiters seen and no
\* end, on the length of what it has read.
RejectedOnLength ==
    /\ rd.pc = "reject"
    /\ rd.startFound /\ rd.delimCount = 2 /\ ~rd.endFound

\* C23: readIno accepts a well-formed frame of up to MAXINOBUF (255) bytes,
\* and rejects on length only when MAXINOBUF bytes have been read.
C23_AcceptsUpToCap ==
    /\ (inp.head \in LongFrames /\ rd.pc # "reading") =>
          /\ rd.pc = "accept"
          /\ rd.buf = inp.head
    /\ RejectedOnLength => rd.totalCount >= MAXINOBUF

\* C24: on a line that takes what is written, writeIno writes a message of
\* fewer than MAXINOLINE (63) bytes and returns true, and writes nothing and
\* returns false for a message of MAXINOLINE bytes or more.
C24_WritesBelowCap ==
    last.op = "writeIno" =>
        IF Len(last.msg) < MAXINOLINE
        THEN last.ret /\ last.frames = <<last.msg>>
        ELSE ~last.ret /\ last.frames = <<>>

\* writeIno has refused a message of exactly MAXINOLINE bytes.
C24_Witness ==
    /\ last.op = "writeIno" /\ Len(last.msg) = MAXINOLINE
    /\ ~last.ret /\ last.frames = <<>>

\* C24 as stated: messages of up to MAXINOLINE bytes are written, and only
\* longer ones refused.
C24_WritesUpToCap ==
    last.op = "writeIno" =>
        IF Len(last.msg) <= MAXINOLINE
        THEN last.ret /\ last.frames = <<last.msg>>
        ELSE ~last.ret /\ last.frames = <<>>

\* communicationErrors as the last operation left it, before the test that
\* ends TimerHit has set it back to zero.
ErrorsCounted == IF last.peak >= 0 THEN last.peak ELSE roof.communicationErrors

\* Every round trip of the poll just made failed on a write error, a read
\* timeout or a malformed frame.
AllFailed ==
    /\ last.op = "TimerHit" /\ last.before.contact
    /\ last.trips > 0 /\ last.failed = last.trips

\* C25: a poll whose round trips all fail (write error, read timeout or
\* malformed frame) adds one to communicationErrors for each of them.
C25_OneErrorEach ==
    AllFailed => ErrorsCounted = last.before.errors + last.failed

\* The poll just made met no write error, no read timeout and no malformed
\* frame: each of its requests came back with a well-formed ACK or NAK.
AllAnswered ==
    /\ last.op = "TimerHit" /\ last.before.contact
    /\ last.trips > 0 /\ last.failed = 0

\* C26: a poll whose requests are all answered with well-formed frames,
\* NAK frames among them, leaves communicationErrors as it found it.
C26_NakIsNoError ==
    AllAnswered => ErrorsCounted = last.before.errors

\* The poll just made ran to its end and read the limit switch kept in
\* member as ON.
SeenOn(member) ==
    /\ last.op = "TimerHit" /\ last.delay > 0
    /\ roof[member] = "ISS_ON"
    /\ \A why \in {"write", "read", "parse", "nak", "contact"} :
           <<member, why>> \notin last.misses

\* The poll just made found the roof opening, or closing, and read the
\* limit switch the motion was heading for as ON.
TargetReached ==
    \/ last.before.opening /\ SeenOn("fullyOpenedLimitSwitch")
    \/ last.before.closing /\ SeenOn("fullyClosedLimitSwitch")

\* C27: after a poll during a motion that reads the target limit switch as
\* ON, roofOpening and roofClosing are both false.
C27_TargetEndsMotion ==
    TargetReached => ~roof.roofOpening /\ ~roof.roofClosing

\* The poll just made ran to its end and found the motion property not
\* busy, so that it called checkConditions.
PolledAtRest ==
    /\ last.op = "TimerHit" /\ last.delay > 0
    /\ last.before.motion.s # "IPS_BUSY"

\* C28: a poll of a roof that is not in motion leaves the dome parked if it
\* was unparked and the closed switch is ON, unparked if it was parked and
\* the opened switch is ON, and with the park status it had otherwise.
C28_ParkFollowsSwitches ==
    PolledAtRest =>
        roof.IsParked = IF last.before.parked
                        THEN roof.fullyOpenedLimitSwitch # "ISS_ON"
                        ELSE roof.fullyClosedLimitSwitch = "ISS_ON"

\* A poll has found a parked dome with the opened switch ON and the closed
\* switch OFF, and has unparked it.
C28_Witness ==
    /\ PolledAtRest /\ last.before.parked /\ ~roof.IsParked
    /\ roof.fullyOpenedLimitSwitch = "ISS_ON"
    /\ roof.fullyClosedLimitSwitch = "ISS_OFF"

\* The table of C29 for switch states opened, closed and locked, motion
\* flags opening and closing and time-out tag, applied to the lights l.
StatusTable(l, opened, closed, locked, opening, closing, tag) ==
    /\ (locked /\ closed) => l.summary = "IPS_OK" /\ l.closed = "IPS_OK"
    /\ (locked /\ opened /\ ~closed) =>
           l.summary = "IPS_OK" /\ l.opened = "IPS_OK"
    /\ (locked /\ ~opened /\ ~closed /\ (opening \/ closing)) =>
           l.summary = "IPS_ALERT" /\ l.moving = "IPS_ALERT"
    /\ (~locked /\ opened /\ ~closed) =>
           l.summary = "IPS_OK" /\ l.opened = "IPS_OK"
    /\ (~locked /\ closed /\ ~opened) =>
           l.summary = "IPS_OK" /\ l.closed = "IPS_OK"
    /\ (~locked /\ ~opened /\ ~closed /\ opening) =>
           l.summary = "IPS_BUSY" /\ l.opened = "IPS_BUSY"
    /\ (~locked /\ ~opened /\ ~closed /\ ~opening /\ closing) =>
           l.summary = "IPS_BUSY" /\ l.closed = "IPS_BUSY"
    /\ (~locked /\ ~opened /\ ~closed /\ ~opening /\ ~closing) =>
           /\ l.summary = "IPS_ALERT"
           /\ l.opened = IF tag = "EXPIRED_OPEN" THEN "IPS_ALERT" ELSE "IPS_IDLE"
           /\ l.closed = IF tag = "EXPIRED_CLOSE" THEN "IPS_ALERT" ELSE "IPS_IDLE"

\* C29: the lights a poll sets follow the table, for the switch states it
\* read and the motion flags and time-out tag it found.
C29_StatusTable ==
    Polled =>
        StatusTable(last.lights,
                    roof.fullyOpenedLimitSwitch = "ISS_ON",
                    roof.fullyClosedLimitSwitch = "ISS_ON",
                    roof.roofLockedSwitch = "ISS_ON",
                    last.before.opening, last.before.closing, last.before.tag)

\* A poll has found the roof locked and in motion, with neither limit
\* switch ON, and has set the summary light to alert.
C29_Witness ==
    /\ Polled /\ dev.locked /\ ~dev.opened /\ ~dev.closed
    /\ last.before.opening
    /\ last.lights.summary = "IPS_ALERT" /\ last.lights.moving = "IPS_ALERT"

\* The places in the frames written by the last operation that hold an
\* open, a close or an abort command.
CommandFrames ==
    {k \in 1..Len(last.frames) :
        last.frames[k] \in {Frame(SET, ROOF_OPEN_CMD, ON),
                            Frame(SET, ROOF_CLOSE_CMD, ON),
                            Frame(SET, ROOF_ABORT_CMD, ON)}}

\* C30: outside simulation an open request, a close request and an abort
\* write a command frame only right after a query of the lock switch whose
\* answer arrived and was OFF; after a lock query that failed or returned
\* ON they write none.
C30_LockQueryFirst ==
    (last.op \in {"Open", "Close", "Abort"} /\ ~roof.simulation) =>
        /\ \A k \in CommandFrames :
               /\ k > 1
               /\ last.frames[k - 1] = Frame(GET, ROOF_LOCKED_SWITCH, ZERO)
               /\ last.lock = "off" /\ ~dev.locked
        /\ last.lock \in {"failed", "on"} => CommandFrames = {}

\* An open request to a roof whose lock is off has asked for the lock state
\* in pushRoofButton, got no valid answer, and written no command.
C30_Witness ==
    /\ last.op = "Open" /\ ~dev.locked /\ last.lock = "failed"
    /\ last.trips = 5 /\ CommandFrames = {}
    /\ \E why \in {"read", "nak"} : <<"roofLockedSwitch", why>> \in last.misses

\* A motion flag is set, and the deadline armed for the motion falls within
\* the time the clock still runs.
MotionTracked ==
    /\ roof.roofOpening \/ roof.roofClosing
    /\ roof.MotionRequest >= 0
    /\ roof.MotionStart + roof.MotionRequest <= StartTime + MaxTime

\* Poll follows poll for ever: last.poll alternates with each of them.
PollsGoOn ==
    /\ []<>(last.op = "TimerHit" /\ last.poll = 0)
    /\ []<>(last.op = "TimerHit" /\ last.poll = 1)

\* From some point on the client makes no request and the three switches
\* of the controller keep their readings, while the polls go on.
QuietForEver ==
    /\ PollsGoOn
    /\ <>[](last.op # "Request")
    /\ <>[]dev.opened \/ <>[]~dev.opened
    /\ <>[]dev.closed \/ <>[]~dev.closed
    /\ <>[]dev.locked \/ <>[]~dev.locked

\* C31: with polls going on and the clock running, a motion flag that is
\* set is eventually cleared, even if the client makes no further request
\* and the switches keep their readings: a state with roofOpening and
\* roofClosing both false follows.
C31_FlagsCleared ==
    QuietForEver =>
        (MotionTracked ~> (~roof.roofOpening /\ ~roof.roofClosing))

\* C32: with constant switch readings and no request, the polls bring the
\* park status to a value at which it stays.
C32_ParkSettles ==
    QuietForEver => (<>[]roof.IsParked \/ <>[]~roof.IsParked)

\* C33: an abort during a motion whose command was not exchanged with the
\* controller (the lock query, the write or the read failed, or the answer
\* was not an ACK) leaves the motion flags and the deadline as they were.
C33_FailedAbortKeepsMotion ==
    (AbortInMotion /\ last.answer # "ack") =>
        /\ roof.roofOpening = last.before.opening
        /\ roof.roofClosing = last.before.closing
        /\ roof.MotionRequest = last.before.request

C35_OnlyAckContacts ==
    (last.op = "Contact" /\ ~roof.crashed /\ roof.contactEstablished) =>
        Tokens(readIno(inp).buf).inoCmd = ACK

=============================================================================
